---------------------------- MODULE Spec2Model ----------------------------
(***************************************************************************)
(* A model of the lazy iterable utilities (lib/transformers.ts,            *)
(* lib/generators.ts, lib/combiners.ts, lib/effectors.ts).                 *)
(*                                                                         *)
(* A Step is an IteratorResult: [done, value].  An upstream source is the  *)
(* list of Steps its cursor returns, call after call, exactly what         *)
(* create.fromResults replays; past the end of the list the cursor         *)
(* returns Done with no payload for ever.                                  *)
(***************************************************************************)
EXTENDS Integers, Sequences, FiniteSets, TLC

VARIABLES
    results,   \* the Steps the source hands out (the input)
    built,     \* which kind of descriptor has been constructed ("none" before)
    op,        \* the stateless operation constructed, with its arguments
    iterPos,   \* upstream cursors: id -> number of next() calls made on it
    history,   \* remember: the shared buffer
    done,      \* remember: the shared done flag
    cursors,   \* the cursors requested from the descriptor, in request order
    calls      \* number of user callback invocations so far

vars == <<results, built, op, iterPos, history, done, cursors, calls>>

----------------------------------------------------------------------------
(* Bounds *)

MaxLen == 3        \* longest list of source Steps
MaxCursors == 2    \* cursors requested from one descriptor
MaxExtra == 1      \* next() calls made on a cursor beyond the source length

MaxPeeks == 3      \* peek() calls made on a peekable cursor beyond that

MaxRange == 3      \* range: endOrStart and end lie in -MaxRange..MaxRange
MaxStep == 2       \* range: step lies in -MaxStep..MaxStep

----------------------------------------------------------------------------
(* Values, Steps and sources *)

\* Payloads are tagged: undefined ("no value"), a number, or an array (the
\* one kind of value here that has a [Symbol.iterator] method).
Undef == [undef |-> TRUE]
Num(n) == [num |-> n]
Arr(s) == [arr |-> s]

\* lib/internal/util.ts isIterable, for a value that is not undefined
isIterable(x) == "arr" \in DOMAIN x

\* `x[Symbol.iterator]` throws a TypeError when x is undefined (or null).
isIterableThrows(x) == x = Undef

\* What is recorded where a TypeError was thrown.
TypeError == [error |-> "TypeError"]

Step(d, v) == [done |-> d, value |-> v]
ValueStep(v) == Step(FALSE, v)
DoneStep(v) == Step(TRUE, v)

\* A descriptor of a stateless operation: its name and its arguments.
Op(name, n, f, flag, tails) ==
    [name |-> name, n |-> n, f |-> f, flag |-> flag, tails |-> tails]

\* No stateless operation has been constructed.
NoOp == Op("none", 0, "", FALSE, << >>)

\* The Steps a source may hand out at position k: an item, a Done without
\* payload, or a Done with a trailing value.  The payload of position k is k,
\* so that every position of a source is told apart from every other.
StepsAt(k) == {ValueStep(Num(k)), DoneStep(Undef), DoneStep(Num(k))}

\* The sources: every list of at most MaxLen Steps, Done steps in the middle
\* and items after a Done step (an unfused source) included.
Sources ==
    UNION {{res \in [1..n -> UNION {StepsAt(k) : k \in 1..n}] :
                \A k \in 1..n : res[k] \in StepsAt(k)} : n \in 0..MaxLen}

\* create.fromResults: the Step returned by the k-th next() call of a cursor.
FromResultsNext(res, k) ==
    IF k <= Len(res) THEN res[k] ELSE DoneStep(Undef)

\* Index of the first Done step a cursor over res returns.
FirstDone(res) ==
    IF \E k \in 1..Len(res) : res[k].done
    THEN CHOOSE k \in 1..Len(res) :
            res[k].done /\ \A j \in 1..(k - 1) : ~res[j].done
    ELSE Len(res) + 1

\* The items of the sequence: the payloads before the first Done step.
Items(res) == [k \in 1..(FirstDone(res) - 1) |-> res[k].value]

IsPrefix(s, t) == Len(s) <= Len(t) /\ \A k \in 1..Len(s) : s[k] = t[k]

\* What a for-of traversal sees of the Steps a cursor returned: the payloads
\* of the Steps before the first Done.
Yielded(out) == Items(out)
Ended(out) == \E k \in 1..Len(out) : out[k].done


----------------------------------------------------------------------------
(* remember (lib/transformers.ts)                                          *)
(*                                                                         *)
(* The descriptor owns history, the upstream cursor (id 0) and done; each  *)
(* cursor is a generator: pc is where it is suspended, idx the position of *)
(* the array iterator that `yield* history` runs over the live buffer.     *)

\* State owned by the descriptor right after remember(it) returns.
RememberConstruct ==
    [history |-> <<>>, iterPos |-> (0 :> 0), done |-> FALSE]

\* A generator object fresh from [Symbol.iterator](): its body has not run.
\* late records whether the upstream had already returned Done by then.
RememberCursor(dn) ==
    [pc |-> "start", idx |-> 0, out |-> <<>>, late |-> dn]

\* `yield* history`: the array iterator has another element to hand out.
ReplayHas(idx, hist) == idx < Len(hist)

\* A loop that pulls whatever the flag says (a mutation of LoopGuard).
LoopGuardAlways(dn) == TRUE

\* `while (!done)`
LoopGuard(dn) == ~dn

\* The value appended to history for the upstream Step nxt.
Remembered(nxt) == nxt.value

\* One next() on a remember cursor c: the Step it returns and the state it
\* leaves behind.
RememberNext(c, hist, dn, pos, res) ==
    IF c.pc = "finished"
    THEN [c |-> c, step |-> DoneStep(Undef), history |-> hist, done |-> dn, pos |-> pos]
    ELSE IF c.pc \in {"start", "replay"} /\ ReplayHas(c.idx, hist)
    THEN [c |-> [c EXCEPT !.pc = "replay", !.idx = c.idx + 1],
          step |-> ValueStep(hist[c.idx + 1]),
          history |-> hist, done |-> dn, pos |-> pos]
    ELSE IF ~LoopGuard(dn)
    THEN [c |-> [c EXCEPT !.pc = "finished"], step |-> DoneStep(Undef),
          history |-> hist, done |-> dn, pos |-> pos]
    ELSE LET nxt == FromResultsNext(res, pos + 1)
         IN  [c |-> [c EXCEPT !.pc = IF nxt.done THEN "finished" ELSE "loop"],
              step |-> nxt,
              history |-> Append(hist, Remembered(nxt)),
              done |-> nxt.done,
              pos |-> pos + 1]

InitRemember ==
    /\ results \in Sources
    /\ built = "none"
    /\ op = NoOp
    /\ iterPos = << >>
    /\ history = << >>
    /\ done = FALSE
    /\ cursors = << >>
    /\ calls = 0

\* remember(results)
ConstructRemember ==
    /\ built = "none"
    /\ built' = "remember"
    /\ history' = RememberConstruct.history
    /\ iterPos' = RememberConstruct.iterPos
    /\ done' = RememberConstruct.done
    /\ UNCHANGED <<results, op, cursors, calls>>

\* remembered[Symbol.iterator]()
RequestRemember ==
    /\ built = "remember"
    /\ Len(cursors) < MaxCursors
    /\ cursors' = Append(cursors, RememberCursor(done))
    /\ UNCHANGED <<results, built, op, iterPos, history, done, calls>>

\* cursor.next() on the i-th cursor
AdvanceRemember(i) ==
    /\ built = "remember"
    /\ Len(cursors[i].out) < Len(results) + MaxExtra
    /\ LET r == RememberNext(cursors[i], history, done, iterPos[0], results)
       IN  /\ cursors' = [cursors EXCEPT ![i] = [r.c EXCEPT !.out = Append(@, r.step)]]
           /\ history' = r.history
           /\ done' = r.done
           /\ iterPos' = [iterPos EXCEPT ![0] = r.pos]
    /\ UNCHANGED <<results, built, op, calls>>

NextRemember ==
    \/ ConstructRemember
    \/ RequestRemember
    \/ \E i \in 1..Len(cursors) : AdvanceRemember(i)

SpecRemember == InitRemember /\ [][NextRemember]_vars

----------------------------------------------------------------------------
(* peekable / CPeekable (lib/transformers.ts)                              *)
(*                                                                         *)
(* The cursor owns the upstream cursor (id 0) and #cachedResult, modelled  *)
(* as a list of at most one Step (empty: undefined).  out lists the Steps  *)
(* next() returned, log every call with the Step it returned.              *)

\* new CPeekable(iter): the upstream cursor is requested, nothing is pulled.
PeekableConstruct ==
    [cursor |-> [cached |-> << >>, out |-> << >>, log |-> << >>],
     iterPos |-> (0 :> 0)]

\* A cache that is never cleared (a mutation of ClearCache).
ClearCacheKeep(cached) == cached

\* #clearCache: what is left in #cachedResult.
ClearCache(cached) == << >>

\* A peek that forgets what it pulled (a mutation of PeekStore).
PeekStoreDrop(step) == << >>

\* peek: `this.#cachedResult = ...`
PeekStore(step) == <<step>>

\* A cursor that advances the upstream cursor whatever is cached (a mutation
\* of CachedOrPull).
CachedOrPullAlways(cached, pos, res) ==
    [step |-> FromResultsNext(res, pos + 1), pos |-> pos + 1]

\* `cache ?? this.#internalIterator.next()`: the cached Step if there is one,
\* else the Step pulled from upstream; pos counts the upstream pulls.
CachedOrPull(cached, pos, res) ==
    IF cached # << >>
    THEN [step |-> cached[1], pos |-> pos]
    ELSE [step |-> FromResultsNext(res, pos + 1), pos |-> pos + 1]

\* next()
PeekableNext(c, pos, res) ==
    LET r == CachedOrPull(c.cached, pos, res)
    IN  [c |-> [c EXCEPT !.cached = ClearCache(c.cached),
                         !.out = Append(@, r.step),
                         !.log = Append(@, [kind |-> "next", step |-> r.step])],
         pos |-> r.pos]

\* peek()
PeekablePeek(c, pos, res) ==
    LET r == CachedOrPull(c.cached, pos, res)
    IN  [c |-> [c EXCEPT !.cached = PeekStore(r.step),
                         !.log = Append(@, [kind |-> "peek", step |-> r.step])],
         pos |-> r.pos]

InitPeekable ==
    /\ results \in Sources
    /\ built = "none"
    /\ op = NoOp
    /\ iterPos = << >>
    /\ history = << >>
    /\ done = FALSE
    /\ cursors = << >>
    /\ calls = 0

\* peekable(results)
ConstructPeekable ==
    /\ built = "none"
    /\ built' = "peekable"
    /\ cursors' = <<PeekableConstruct.cursor>>
    /\ iterPos' = PeekableConstruct.iterPos
    /\ UNCHANGED <<results, op, history, done, calls>>

\* Calls made on the peekable cursor are capped.
PeekableMayCall ==
    /\ built = "peekable"
    /\ Len(cursors[1].log) < Len(results) + MaxExtra + MaxPeeks

\* peekableIter.next()
AdvancePeekable ==
    /\ PeekableMayCall
    /\ LET r == PeekableNext(cursors[1], iterPos[0], results)
       IN  /\ cursors' = <<r.c>>
           /\ iterPos' = [iterPos EXCEPT ![0] = r.pos]
    /\ UNCHANGED <<results, built, op, history, done, calls>>

\* peekableIter.peek()
PeekPeekable ==
    /\ PeekableMayCall
    /\ LET r == PeekablePeek(cursors[1], iterPos[0], results)
       IN  /\ cursors' = <<r.c>>
           /\ iterPos' = [iterPos EXCEPT ![0] = r.pos]
    /\ UNCHANGED <<results, built, op, history, done, calls>>

NextPeekable ==
    \/ ConstructPeekable
    \/ AdvancePeekable
    \/ PeekPeekable

SpecPeekable == InitPeekable /\ [][NextPeekable]_vars

----------------------------------------------------------------------------
(* The stateless operations: source constructors (lib/generators.ts),      *)
(* transformers (lib/transformers.ts), combinators (lib/combiners.ts) and  *)
(* lazyObserver (lib/effectors.ts).                                        *)
(*                                                                         *)
(* A descriptor is a record op: its name and its arguments.  Each cursor   *)
(* requested from it is a generator object with its own local variables:   *)
(* pc (where it is suspended), index, cnt, buf, dropping, seg, pos2.  The  *)
(* upstream cursor a generator requests over `results` is iterPos[id].     *)

\* Callbacks given to map.
MapFns == {"plus10", "index"}
ApplyMap(f, v, i) == IF f = "plus10" THEN Num(v.num + 10) ELSE Num(i)

\* Predicates given to until, dropUntil and filter.
Preds == {"odd", "second", "never"}
ApplyPred(f, v, i) ==
    CASE f = "odd" -> v.num % 2 = 1
      [] f = "second" -> i = 1
      [] f = "never" -> FALSE
      [] f = "always" -> TRUE

\* Callbacks given to flatMap: a scalar, an array, either by parity, or
\* nothing (undefined) for the second item.
FlatFns == {"scalar", "dup", "none", "mixed", "void"}
ApplyFlat(f, v, i) ==
    CASE f = "scalar" -> v
      [] f = "dup" -> Arr(<<v, Num(v.num + 10)>>)
      [] f = "none" -> Arr(<< >>)
      [] f = "mixed" -> IF v.num % 2 = 1 THEN Num(i) ELSE Arr(<<v, Arr(<<v>>)>>)
      [] f = "void" -> IF i = 1 THEN Undef ELSE v

\* Callback given to endlessFrom (increments(0, 1)).
ApplyEndless(i) == Num(i)

\* The second argument of pair and the tails of concat.
Tail1 == <<ValueStep(Num(7))>>
Tail2 == <<ValueStep(Num(8)), ValueStep(Num(9)), DoneStep(Num(5))>>
TailLists == {<< >>, <<Tail1>>, <<<< >>, Tail2>>, <<Tail2, Tail1>>}

\* The nested value found at position k of the input of flat and completeFlat.
Nest(v) ==
    CASE v.num = 1 -> v
      [] v.num = 2 -> Arr(<<Num(21), Arr(<<Num(22), Undef>>)>>)
      [] v.num = 3 -> Arr(<<Arr(<<Arr(<<Num(31)>>), Num(32)>>), Arr(<< >>)>>)
      [] OTHER -> Arr(<<Arr(<<Arr(<<Arr(<<v>>)>>)>>)>>)

\* The nested input: the Steps of res with every payload replaced by Nest.
NestedSource(res) ==
    [k \in 1..Len(res) |->
        IF "num" \in DOMAIN res[k].value
        THEN Step(res[k].done, Nest(res[k].value))
        ELSE res[k]]

Ops ==
    {Op("map", 0, f, FALSE, << >>) : f \in MapFns}
    \cup {Op("flatMap", 0, f, FALSE, << >>) : f \in FlatFns}
    \cup {Op("take", n, "", FALSE, << >>) : n \in 0..(MaxLen + MaxExtra)}
    \cup {Op("takeTake", n, "", FALSE, << >>) : n \in 0..MaxLen}
    \cup {Op("drop", n, "", FALSE, << >>) : n \in 0..MaxLen}
    \cup {Op("until", 0, f, b, << >>) : f \in Preds, b \in BOOLEAN}
    \cup {Op("dropUntil", 0, f, b, << >>) : f \in Preds, b \in BOOLEAN}
    \cup {Op("filter", 0, f, FALSE, << >>) : f \in Preds}
    \cup {Op("indexedPairs", 0, "", FALSE, << >>)}
    \cup {Op(nm, n, "", FALSE, << >>) : nm \in {"chunkify", "chunkifyArray"}, n \in 1..MaxLen}
    \cup {Op("flat", n, "", FALSE, << >>) : n \in 0..MaxLen}
    \cup {Op("completeFlat", 0, "", FALSE, << >>)}
    \cup {Op("fuse", 0, "", FALSE, << >>)}
    \cup {Op("pair", 0, "", FALSE, <<t>>) : t \in {Tail1, Tail2}}
    \cup {Op("concat", 0, "", FALSE, ts) : ts \in TailLists}
    \cup {Op("lazyObserver", 0, "", FALSE, << >>)}
    \cup {Op(nm, 0, "", FALSE, << >>) : nm \in {"from", "fromResults", "endlessFrom"}}
    \cup {Op("fromResults", 0, "", FALSE, <<Tail1>>)}

\* A number argument is n when f is "", n + 1/2 when f is "half", and NaN or
\* Infinity when f says so.
Fractions == {"half", "NaN", "Infinity"}

\* Number.isSafeInteger, for numbers far from 2^53.
isSafeInteger(n, frac) == frac = ""

\* A guard that lets chunkSize 0 through (a mutation of ChunkSizeOk).
ChunkSizeOkAllowsZero(o) == isSafeInteger(o.n, o.f) /\ o.n >= 0

\* chunkify: `Number.isSafeInteger(chunkSize) && chunkSize > 0`
ChunkSizeOk(o) == isSafeInteger(o.n, o.f) /\ o.n > 0

\* flat: `Number.isSafeInteger(depth) && depth >= 0`
DepthOk(o) == isSafeInteger(o.n, o.f) /\ o.n >= 0

\* The operation throws a RangeError instead of returning a descriptor.
Throws(o) ==
    \/ o.name \in {"chunkify", "chunkifyArray"} /\ ~ChunkSizeOk(o)
    \/ o.name = "flat" /\ ~DepthOk(o)

\* Applications of chunkify and flat to a number they do not accept.
InvalidOps ==
    {Op(nm, n, "", FALSE, << >>) : nm \in {"chunkify", "chunkifyArray"}, n \in {-1, 0}}
    \cup {Op(nm, n, fr, FALSE, << >>) :
              nm \in {"chunkify", "chunkifyArray", "flat"}, n \in {0, 1}, fr \in Fractions}
    \cup {Op("flat", -1, "", FALSE, << >>)}

\* A generator object fresh from [Symbol.iterator](): its body has not run.
PipeCursor ==
    [pc |-> "start", index |-> 0, cnt |-> 0, buf |-> << >>, dropping |-> TRUE,
     seg |-> 0, pos2 |-> 0, out |-> << >>]

\* The result of one next(): the cursor's new local state, the Step returned,
\* the upstream cursor's position and the number of callback calls made.
Ret(c, step, pos, k) == [c |-> c, step |-> step, pos |-> pos, calls |-> k]

\* The generator body returns (or has returned): { value: undefined, done: true }.
Finish(c, pos, k) == Ret([c EXCEPT !.pc = "finished"], DoneStep(Undef), pos, k)

\* The generator body throws a TypeError: the call of next() throws, which
\* is recorded as a Step that ends the traversal, and the generator is
\* finished.
Thrown == Step(TRUE, TypeError)
Throw(c, pos, k) ==
    Ret([c EXCEPT !.pc = "finished", !.buf = << >>], Thrown, pos, k)

\* The generator is suspended at a yield of v.
Yield(c, v, pos, k) == Ret([c EXCEPT !.pc = "running"], ValueStep(v), pos, k)

\* The Step an upstream cursor at position pos returns to its next next().
Pull(res, pos) == FromResultsNext(res, pos + 1)

\* map: `for (const item of it) yield f(item, index++, it)`
MapNext(o, c, pos, res, k) ==
    LET nxt == Pull(res, pos)
    IN  IF nxt.done THEN Finish(c, pos + 1, k)
        ELSE Yield([c EXCEPT !.index = @ + 1],
                   ApplyMap(o.f, nxt.value, c.index), pos + 1, k + 1)

\* A lazyObserver that also calls f when the upstream cursor returns Done (a
\* mutation of LazyObserverNext).
LazyObserverNextObservesDone(o, c, pos, res, k) ==
    LET nxt == Pull(res, pos)
    IN  IF nxt.done THEN Finish(c, pos + 1, k + 1)
        ELSE Yield([c EXCEPT !.index = @ + 1], nxt.value, pos + 1, k + 1)

\* lazyObserver: `f(item, index++, it); yield item`
LazyObserverNext(o, c, pos, res, k) ==
    LET nxt == Pull(res, pos)
    IN  IF nxt.done THEN Finish(c, pos + 1, k)
        ELSE Yield([c EXCEPT !.index = @ + 1], nxt.value, pos + 1, k + 1)

\* A fuse that hands out the upstream cursor's Steps as they are (a mutation
\* of FuseNext).
FuseNextPassThrough(o, c, pos, res, k) ==
    Ret([c EXCEPT !.pc = "running"], Pull(res, pos), pos + 1, k)

\* A fuse that also yields the payload of the Done step (a mutation of
\* FuseNext).
FuseNextYieldsReturn(o, c, pos, res, k) ==
    LET nxt == Pull(res, pos)
    IN  IF c.pc = "last" THEN Finish(c, pos, k)
        ELSE IF nxt.done
        THEN Ret([c EXCEPT !.pc = "last"], ValueStep(nxt.value), pos + 1, k)
        ELSE Yield(c, nxt.value, pos + 1, k)

\* fuse: `for (const value of iter) yield value`
FuseNext(o, c, pos, res, k) ==
    LET nxt == Pull(res, pos)
    IN  IF nxt.done THEN Finish(c, pos + 1, k)
        ELSE Yield(c, nxt.value, pos + 1, k)

\* indexedPairs: `yield [index++, item]`
IndexedPairsNext(o, c, pos, res, k) ==
    LET nxt == Pull(res, pos)
    IN  IF nxt.done THEN Finish(c, pos + 1, k)
        ELSE Yield([c EXCEPT !.index = @ + 1],
                   Arr(<<Num(c.index), nxt.value>>), pos + 1, k)

\* A take that calls next() twice per item, once to look at done and once
\* for the value (a mutation of TakeNext).
TakeNextPullsTwice(o, c, pos, res, k) ==
    IF c.cnt < o.n /\ ~Pull(res, pos).done
    THEN Yield([c EXCEPT !.cnt = @ + 1], Pull(res, pos + 1).value, pos + 2, k)
    ELSE Finish(c, pos + 1, k)

\* take: `for (let i = 0; i < n; i++) yield iterator.next().value`
TakeNext(o, c, pos, res, k) ==
    IF c.cnt < o.n
    THEN Yield([c EXCEPT !.cnt = @ + 1], Pull(res, pos).value, pos + 1, k)
    ELSE Finish(c, pos, k)

\* take(take(it, n), n): the outer generator's `iterator` is a cursor of the
\* inner take, kept in buf once the outer body has requested it; the inner
\* cursor is the one that advances the cursor over `it`.
TakeTakeNext(o, c, pos, res, k) ==
    LET inner == IF c.buf = << >> THEN PipeCursor ELSE c.buf[1]
        r == IF inner.pc = "finished" THEN Ret(inner, DoneStep(Undef), pos, k)
             ELSE TakeNext(o, inner, pos, res, k)
    IN  IF c.cnt < o.n
        THEN Yield([c EXCEPT !.cnt = @ + 1, !.buf = <<r.c>>], r.step.value,
                   r.pos, r.calls)
        ELSE Finish(c, pos, k)

\* drop: n next() calls whose results are discarded when the body starts,
\* then `yield*` over the same upstream cursor.
DropNext(o, c, pos, res, k) ==
    LET from == IF c.pc = "start" THEN pos + o.n ELSE pos
        nxt == Pull(res, from)
    IN  IF nxt.done THEN Finish(c, from + 1, k)
        ELSE Yield(c, nxt.value, from + 1, k)

\* An until that yields the item for which f returns true and goes on (a
\* mutation of UntilNext).
UntilNextGoesOn(o, c, pos, res, k) ==
    LET nxt == Pull(res, pos)
    IN  IF nxt.done THEN Finish(c, pos + 1, k)
        ELSE IF ApplyPred(o.f, nxt.value, c.index) /\ ~o.flag
        THEN Finish([c EXCEPT !.index = @ + 1], pos + 1, k + 1)
        ELSE Yield([c EXCEPT !.index = @ + 1], nxt.value, pos + 1, k + 1)

\* until: the item for which f returns true is yielded if includeLast
\* (o.flag), and the loop is left when the generator is resumed.
UntilNext(o, c, pos, res, k) ==
    LET nxt == Pull(res, pos)
    IN  IF c.pc = "last" THEN Finish(c, pos, k)
        ELSE IF nxt.done THEN Finish(c, pos + 1, k)
        ELSE IF ApplyPred(o.f, nxt.value, c.index)
        THEN IF o.flag
             THEN Ret([c EXCEPT !.pc = "last", !.index = @ + 1],
                      ValueStep(nxt.value), pos + 1, k + 1)
             ELSE Finish([c EXCEPT !.index = @ + 1], pos + 1, k + 1)
        ELSE Yield([c EXCEPT !.index = @ + 1], nxt.value, pos + 1, k + 1)

\* from: `const next = f(index++); if (next.done) return next.value;
\* yield next.value`, with f replaying res.
FromNext(o, c, pos, res, k) ==
    LET nxt == FromResultsNext(res, c.index + 1)
    IN  IF nxt.done
        THEN Ret([c EXCEPT !.pc = "finished", !.index = @ + 1],
                 DoneStep(nxt.value), pos, k + 1)
        ELSE Yield([c EXCEPT !.index = @ + 1], nxt.value, pos, k + 1)

\* endlessFrom: `yield f(index++)`
EndlessFromNext(o, c, pos, res, k) ==
    Yield([c EXCEPT !.index = @ + 1], ApplyEndless(c.index), pos, k + 1)

\* fromResults: `iterator.next()` on the cursor over the supplied results.
\* The results are the array res, or (o.tails not empty) a generator that
\* yields the elements of res and then returns the value o.tails[1][1].
ResultsPull(o, res, pos) ==
    IF pos < Len(res) THEN ValueStep(res[pos + 1])
    ELSE IF pos = Len(res) /\ o.tails # << >> THEN DoneStep(o.tails[1][1])
    ELSE DoneStep(Undef)

\* fromResults: the cursor is a plain object, no generator: next() returns
\* `next.value`, or { value: undefined, done: true } if `next.value == null`.
FromResultsCursorNext(o, c, pos, res, k) ==
    LET next == ResultsPull(o, res, pos)
    IN  Ret([c EXCEPT !.pc = "running"],
            IF next.value = Undef THEN DoneStep(Undef) ELSE next.value,
            pos + 1, k)

\* filter: `if (predicate(item, index++, it)) yield item`
RECURSIVE FilterNext(_, _, _, _, _)
FilterNext(o, c, pos, res, k) ==
    LET nxt == Pull(res, pos)
        c1 == [c EXCEPT !.index = @ + 1]
    IN  IF nxt.done THEN Finish(c, pos + 1, k)
        ELSE IF ApplyPred(o.f, nxt.value, c.index)
        THEN Yield(c1, nxt.value, pos + 1, k + 1)
        ELSE FilterNext(o, c1, pos + 1, res, k + 1)

\* A dropUntil whose `dropping` stays true (a mutation of DropUntilNext).
RECURSIVE DropUntilNextKeepsDropping(_, _, _, _, _)
DropUntilNextKeepsDropping(o, c, pos, res, k) ==
    LET nxt == Pull(res, pos)
        hit == ApplyPred(o.f, nxt.value, c.index)
        c1 == [c EXCEPT !.index = @ + 1]
    IN  IF nxt.done THEN Finish(c, pos + 1, k)
        ELSE IF ~hit \/ ~o.flag
        THEN DropUntilNextKeepsDropping(o, c1, pos + 1, res, k + 1)
        ELSE Yield(c1, nxt.value, pos + 1, k + 1)

\* dropUntil: while dropping, `dropping = !f(item, index++, it)`; the item
\* that ends the dropping is yielded if includeFirst (o.flag).
RECURSIVE DropUntilNext(_, _, _, _, _)
DropUntilNext(o, c, pos, res, k) ==
    LET nxt == Pull(res, pos)
        hit == ApplyPred(o.f, nxt.value, c.index)
        c1 == [c EXCEPT !.index = @ + 1, !.dropping = ~hit]
    IN  IF nxt.done THEN Finish(c, pos + 1, k)
        ELSE IF ~c.dropping THEN Yield(c, nxt.value, pos + 1, k)
        ELSE IF ~hit \/ ~o.flag THEN DropUntilNext(o, c1, pos + 1, res, k + 1)
        ELSE Yield(c1, nxt.value, pos + 1, k + 1)

\* A chunkify without the `if (chunk.length > 0) yield chunk` that follows
\* the loop (a mutation of ChunkifyNext).
RECURSIVE ChunkifyNextDropsRest(_, _, _, _, _)
ChunkifyNextDropsRest(o, c, pos, res, k) ==
    LET nxt == Pull(res, pos)
        chunk == Append(c.buf, nxt.value)
    IN  IF nxt.done THEN Finish(c, pos + 1, k)
        ELSE IF Len(chunk) = o.n
        THEN Yield([c EXCEPT !.buf = << >>], Arr(chunk), pos + 1, k)
        ELSE ChunkifyNextDropsRest(o, [c EXCEPT !.buf = chunk], pos + 1, res, k)

\* chunkify, any iterable: values are pushed onto chunk (buf) until it holds
\* chunkSize of them; what is left when the upstream ends is yielded last.
RECURSIVE ChunkifyNext(_, _, _, _, _)
ChunkifyNext(o, c, pos, res, k) ==
    LET nxt == Pull(res, pos)
        chunk == Append(c.buf, nxt.value)
    IN  IF c.pc = "last" THEN Finish(c, pos, k)
        ELSE IF nxt.done
        THEN IF Len(c.buf) > 0
             THEN Ret([c EXCEPT !.pc = "last", !.buf = << >>],
                      ValueStep(Arr(c.buf)), pos + 1, k)
             ELSE Finish(c, pos + 1, k)
        ELSE IF Len(chunk) = o.n
        THEN Yield([c EXCEPT !.buf = << >>], Arr(chunk), pos + 1, k)
        ELSE ChunkifyNext(o, [c EXCEPT !.buf = chunk], pos + 1, res, k)

\* The array whose elements are the items of res.
ArrayOf(res) == Items(res)

\* it.slice(from, to) of an array a, with 0-based from and to.
Slice(a, from, to) ==
    SubSeq(a, from + 1, IF to < Len(a) THEN to ELSE Len(a))

\* An array path that yields full chunks only, its loop running while
\* `index + chunkSize <= it.length` (a mutation of ChunkifyArrayNext).
ChunkifyArrayNextFullOnly(o, c, pos, res, k) ==
    IF c.index + o.n <= Len(ArrayOf(res))
    THEN Yield([c EXCEPT !.index = @ + o.n],
               Arr(Slice(ArrayOf(res), c.index, c.index + o.n)), pos, k)
    ELSE Finish(c, pos, k)

\* chunkify, Array.isArray(it): `yield it.slice(index, index + chunkSize)`
ChunkifyArrayNext(o, c, pos, res, k) ==
    IF c.index < Len(ArrayOf(res))
    THEN Yield([c EXCEPT !.index = @ + o.n],
               Arr(Slice(ArrayOf(res), c.index, c.index + o.n)), pos, k)
    ELSE Finish(c, pos, k)

\* flatMap: `yield* mapped` if isIterable(mapped), else `yield mapped`; buf
\* holds what the array iterator of `yield* mapped` has still to hand out.
\* isIterable(mapped) throws when the callback returned undefined.
RECURSIVE FlatMapNext(_, _, _, _, _)
FlatMapNext(o, c, pos, res, k) ==
    LET nxt == Pull(res, pos)
        mapped == ApplyFlat(o.f, nxt.value, c.index)
        c1 == [c EXCEPT !.index = @ + 1]
    IN  IF Len(c.buf) > 0
        THEN Yield([c EXCEPT !.buf = Tail(@)], Head(c.buf), pos, k)
        ELSE IF nxt.done THEN Finish(c, pos + 1, k)
        ELSE IF isIterableThrows(mapped) THEN Throw(c, pos + 1, k + 1)
        ELSE IF ~isIterable(mapped) THEN Yield(c1, mapped, pos + 1, k + 1)
        ELSE IF Len(mapped.arr) = 0 THEN FlatMapNext(o, c1, pos + 1, res, k + 1)
        ELSE Yield([c1 EXCEPT !.buf = Tail(mapped.arr)], Head(mapped.arr),
                   pos + 1, k + 1)

\* first, then rest unless first ends with a TypeError.
Then(first, rest) ==
    IF Len(first) > 0 /\ first[Len(first)] = TypeError THEN first
    ELSE first \o rest

\* What a traversal of flat(a, depth) yields for an array a, with TypeError
\* last if the traversal is ended by isIterable throwing.
RECURSIVE FlatItems(_, _)
FlatItems(a, depth) ==
    IF depth = 0 \/ Len(a) = 0 THEN a
    ELSE IF isIterableThrows(Head(a)) THEN <<TypeError>>
    ELSE Then(IF isIterable(Head(a)) THEN FlatItems(Head(a).arr, depth - 1)
              ELSE <<Head(a)>>,
              FlatItems(Tail(a), depth))

\* flat: depth 0 is `yield* iter`; else `yield* flat(value, depth - 1)` if
\* isIterable(value), else `yield value`.
RECURSIVE FlatNext(_, _, _, _, _)
FlatNext(o, c, pos, res, k) ==
    LET nxt == Pull(NestedSource(res), pos)
        inner == FlatItems(nxt.value.arr, o.n - 1)
    IN  IF Len(c.buf) > 0
        THEN IF Head(c.buf) = TypeError THEN Throw(c, pos, k)
             ELSE Yield([c EXCEPT !.buf = Tail(@)], Head(c.buf), pos, k)
        ELSE IF nxt.done THEN Finish(c, pos + 1, k)
        ELSE IF o.n = 0 THEN Yield(c, nxt.value, pos + 1, k)
        ELSE IF isIterableThrows(nxt.value) THEN Throw(c, pos + 1, k)
        ELSE IF ~isIterable(nxt.value) THEN Yield(c, nxt.value, pos + 1, k)
        ELSE IF Len(inner) = 0 THEN FlatNext(o, c, pos + 1, res, k)
        ELSE IF Head(inner) = TypeError THEN Throw(c, pos + 1, k)
        ELSE Yield([c EXCEPT !.buf = Tail(inner)], Head(inner), pos + 1, k)

\* What a traversal of completeFlat(a) yields for an array a, with
\* TypeError last if the traversal is ended by isIterable throwing.
RECURSIVE CompleteFlatItems(_)
CompleteFlatItems(a) ==
    IF Len(a) = 0 THEN a
    ELSE IF isIterableThrows(Head(a)) THEN <<TypeError>>
    ELSE Then(IF isIterable(Head(a)) THEN CompleteFlatItems(Head(a).arr)
              ELSE <<Head(a)>>,
              CompleteFlatItems(Tail(a)))

\* completeFlat: `yield* completeFlat(value)` if isIterable(value)
RECURSIVE CompleteFlatNext(_, _, _, _, _)
CompleteFlatNext(o, c, pos, res, k) ==
    LET nxt == Pull(NestedSource(res), pos)
        inner == CompleteFlatItems(nxt.value.arr)
    IN  IF Len(c.buf) > 0
        THEN IF Head(c.buf) = TypeError THEN Throw(c, pos, k)
             ELSE Yield([c EXCEPT !.buf = Tail(@)], Head(c.buf), pos, k)
        ELSE IF nxt.done THEN Finish(c, pos + 1, k)
        ELSE IF isIterableThrows(nxt.value) THEN Throw(c, pos + 1, k)
        ELSE IF ~isIterable(nxt.value) THEN Yield(c, nxt.value, pos + 1, k)
        ELSE IF Len(inner) = 0 THEN CompleteFlatNext(o, c, pos + 1, res, k)
        ELSE IF Head(inner) = TypeError THEN Throw(c, pos + 1, k)
        ELSE Yield([c EXCEPT !.buf = Tail(inner)], Head(inner), pos + 1, k)

\* pair: one next() on each upstream cursor; the loop is left when both
\* Steps are Done.
PairNext(o, c, pos, res, k) ==
    LET a == Pull(res, pos)
        b == Pull(o.tails[1], c.pos2)
        c1 == [c EXCEPT !.pos2 = @ + 1]
    IN  IF a.done /\ b.done THEN Finish(c1, pos + 1, k)
        ELSE Yield(c1, Arr(<<a.value, b.value>>), pos + 1, k)

\* A concat that goes on in the next tail from the position it reached in
\* the one before (a mutation of ConcatNext).
RECURSIVE ConcatNextKeepsPos(_, _, _, _, _)
ConcatNextKeepsPos(o, c, pos, res, k) ==
    IF c.seg = 0
    THEN IF Pull(res, pos).done
         THEN ConcatNextKeepsPos(o, [c EXCEPT !.seg = 1], pos + 1, res, k)
         ELSE Yield(c, Pull(res, pos).value, pos + 1, k)
    ELSE IF c.seg > Len(o.tails) THEN Finish(c, pos, k)
    ELSE IF Pull(o.tails[c.seg], c.pos2).done
    THEN ConcatNextKeepsPos(o, [c EXCEPT !.seg = @ + 1], pos, res, k)
    ELSE Yield([c EXCEPT !.pos2 = @ + 1], Pull(o.tails[c.seg], c.pos2).value,
               pos, k)

\* concat: `yield* head`, then `yield* it` for each of the tails; seg is the
\* argument being traversed, pos2 the position of the cursor over a tail.
RECURSIVE ConcatNext(_, _, _, _, _)
ConcatNext(o, c, pos, res, k) ==
    IF c.seg = 0
    THEN IF Pull(res, pos).done
         THEN ConcatNext(o, [c EXCEPT !.seg = 1, !.pos2 = 0], pos + 1, res, k)
         ELSE Yield(c, Pull(res, pos).value, pos + 1, k)
    ELSE IF c.seg > Len(o.tails) THEN Finish(c, pos, k)
    ELSE IF Pull(o.tails[c.seg], c.pos2).done
    THEN ConcatNext(o, [c EXCEPT !.seg = @ + 1, !.pos2 = 0], pos, res, k)
    ELSE Yield([c EXCEPT !.pos2 = @ + 1], Pull(o.tails[c.seg], c.pos2).value,
               pos, k)

\* One next() on a cursor of the descriptor op.  A generator whose body has
\* returned answers { value: undefined, done: true } from then on.
PipeNext(o, c, pos, res, k) ==
    IF c.pc = "finished" THEN Ret(c, DoneStep(Undef), pos, k)
    ELSE CASE o.name = "map" -> MapNext(o, c, pos, res, k)
           [] o.name = "flatMap" -> FlatMapNext(o, c, pos, res, k)
           [] o.name = "take" -> TakeNext(o, c, pos, res, k)
           [] o.name = "takeTake" -> TakeTakeNext(o, c, pos, res, k)
           [] o.name = "drop" -> DropNext(o, c, pos, res, k)
           [] o.name = "until" -> UntilNext(o, c, pos, res, k)
           [] o.name = "dropUntil" -> DropUntilNext(o, c, pos, res, k)
           [] o.name = "filter" -> FilterNext(o, c, pos, res, k)
           [] o.name = "indexedPairs" -> IndexedPairsNext(o, c, pos, res, k)
           [] o.name = "chunkify" -> ChunkifyNext(o, c, pos, res, k)
           [] o.name = "chunkifyArray" -> ChunkifyArrayNext(o, c, pos, res, k)
           [] o.name = "flat" -> FlatNext(o, c, pos, res, k)
           [] o.name = "completeFlat" -> CompleteFlatNext(o, c, pos, res, k)
           [] o.name = "fuse" -> FuseNext(o, c, pos, res, k)
           [] o.name = "pair" -> PairNext(o, c, pos, res, k)
           [] o.name = "concat" -> ConcatNext(o, c, pos, res, k)
           [] o.name = "lazyObserver" -> LazyObserverNext(o, c, pos, res, k)
           [] o.name = "from" -> FromNext(o, c, pos, res, k)
           [] o.name = "endlessFrom" -> EndlessFromNext(o, c, pos, res, k)
           [] o.name = "fromResults" -> FromResultsCursorNext(o, c, pos, res, k)

\* A drop that discards its n items while the descriptor is constructed (a
\* mutation of ConstructPulls).
ConstructPullsEager(o) == IF o.name = "drop" THEN o.n ELSE 0

\* Upstream next() calls made while a descriptor is constructed: every
\* operation only returns an object holding a [Symbol.iterator] method.
ConstructPulls(o) == 0

\* Callback calls made while a descriptor is constructed.
ConstructCalls(o) == 0

\* One upstream cursor for all the cursors of a descriptor (a mutation of
\* UpstreamId).
UpstreamIdShared(i) == 1

\* The upstream cursor used by the i-th cursor requested from a descriptor:
\* its own, requested inside [Symbol.iterator]().
UpstreamId(i) == i

InitPipe ==
    /\ results \in Sources
    /\ built = "none"
    /\ op = NoOp
    /\ iterPos = << >>
    /\ history = << >>
    /\ done = FALSE
    /\ cursors = << >>
    /\ calls = 0

\* One of the operations is applied to results (and its other arguments);
\* chunkify and flat validate their number before anything else.
ConstructPipe ==
    /\ built = "none"
    /\ \E o \in Ops \cup InvalidOps :
          /\ op' = o
          /\ IF Throws(o)
             THEN /\ built' = "RangeError"
                  /\ UNCHANGED <<iterPos, calls>>
             ELSE /\ built' = "pipe"
                  /\ iterPos' = [id \in {1, 2} |-> ConstructPulls(o)]
                  /\ calls' = calls + ConstructCalls(o)
    /\ UNCHANGED <<results, history, done, cursors>>

\* seq[Symbol.iterator](), at most twice.
RequestPipe ==
    /\ built = "pipe"
    /\ Len(cursors) < 2
    /\ cursors' = Append(cursors, PipeCursor)
    /\ UNCHANGED <<results, built, op, iterPos, history, done, calls>>

\* cursor.next() on the i-th cursor
AdvancePipe(i) ==
    /\ built = "pipe"
    /\ Len(cursors[i].out) < MaxLen + MaxExtra + 1
    /\ LET r == PipeNext(op, cursors[i], iterPos[UpstreamId(i)], results, calls)
       IN  /\ cursors' = [cursors EXCEPT ![i] = [r.c EXCEPT !.out = Append(@, r.step)]]
           /\ iterPos' = [iterPos EXCEPT ![UpstreamId(i)] = r.pos]
           /\ calls' = r.calls
    /\ UNCHANGED <<results, built, op, history, done>>

NextPipe ==
    \/ ConstructPipe
    \/ RequestPipe
    \/ \E i \in 1..Len(cursors) : AdvancePipe(i)

SpecPipe == InitPipe /\ [][NextPipe]_vars

----------------------------------------------------------------------------
(* create.range (lib/generators.ts)                                        *)
(*                                                                         *)
(* The arguments are kept in op.tails as <<endOrStart, end, step>>, an     *)
(* argument left out being Undef.  A cursor is a generator object: pc is   *)
(* where it is suspended and i the loop variable.                          *)

\* `end ? ... : ...`: undefined and 0 are falsy.
Truthy(x) == x # Undef /\ x.num # 0

\* `step = 1`: the default of a parameter left out.
StepArg(o) == IF o.tails[3] = Undef THEN 1 ELSE o.tails[3].num

\* `const start = end ? endOrStart : 0`
RangeStart(o) == IF Truthy(o.tails[2]) THEN o.tails[1].num ELSE 0

\* `const newEnd = end ? end : endOrStart`
RangeEnd(o) == IF Truthy(o.tails[2]) THEN o.tails[2].num ELSE o.tails[1].num

\* `const upwards = newEnd > start`
Upwards(o) == RangeEnd(o) > RangeStart(o)

\* `step = Math.abs(step); if (!upwards) step *= -1`
RangeStep(o) ==
    LET abs == IF StepArg(o) < 0 THEN -StepArg(o) ELSE StepArg(o)
    IN  IF Upwards(o) THEN abs ELSE -abs

\* `shouldStop(i)`: the condition under which the loop goes on.
ShouldStop(o, i) == IF Upwards(o) THEN i <= RangeEnd(o) ELSE i >= RangeEnd(o)

\* range(endOrStart, end, step) for the arguments a, b, s.
RangeOp(a, b, s) == Op("range", 0, "", FALSE, <<a, b, s>>)

\* The numbers passed to range, and Undef for an argument left out.
RangeArgs == {Num(n) : n \in -MaxRange..MaxRange}
StepArgs == {Num(n) : n \in -MaxStep..MaxStep}
RangeOps ==
    {RangeOp(a, b, st) : a \in RangeArgs, b \in RangeArgs \cup {Undef},
                         st \in StepArgs \cup {Undef}}

\* A generator object fresh from [Symbol.iterator]().
RangeCursor == [pc |-> "start", i |-> 0, out |-> << >>]

\* One next() on a range cursor:
\* `for (let i = start; shouldStop(i); i += step) yield i`
RangeNext(o, c) ==
    LET i == IF c.pc = "start" THEN RangeStart(o) ELSE c.i + RangeStep(o)
    IN  IF c.pc = "finished" THEN [c |-> c, step |-> DoneStep(Undef)]
        ELSE IF ShouldStop(o, i)
        THEN [c |-> [c EXCEPT !.pc = "running", !.i = i], step |-> ValueStep(Num(i))]
        ELSE [c |-> [c EXCEPT !.pc = "finished"], step |-> DoneStep(Undef)]

InitRange ==
    /\ results = << >>
    /\ built = "none"
    /\ op = NoOp
    /\ iterPos = << >>
    /\ history = << >>
    /\ done = FALSE
    /\ cursors = << >>
    /\ calls = 0

\* create.range(...)
ConstructRange ==
    /\ built = "none"
    /\ built' = "range"
    /\ op' \in RangeOps
    /\ UNCHANGED <<results, iterPos, history, done, cursors, calls>>

\* numbers[Symbol.iterator](), at most twice.
RequestRange ==
    /\ built = "range"
    /\ Len(cursors) < 2
    /\ cursors' = Append(cursors, RangeCursor)
    /\ UNCHANGED <<results, built, op, iterPos, history, done, calls>>

\* cursor.next() on the i-th cursor
AdvanceRange(i) ==
    /\ built = "range"
    /\ Len(cursors[i].out) < 2 * MaxRange + 1 + MaxExtra
    /\ LET r == RangeNext(op, cursors[i])
       IN  cursors' = [cursors EXCEPT ![i] = [r.c EXCEPT !.out = Append(@, r.step)]]
    /\ UNCHANGED <<results, built, op, iterPos, history, done, calls>>

NextRange ==
    \/ ConstructRange
    \/ RequestRange
    \/ \E i \in 1..Len(cursors) : AdvanceRange(i)

SpecRange == InitRange /\ [][NextRange]_vars

----------------------------------------------------------------------------
(* reduce, some, every (lib/reducers.ts)                                   *)
(*                                                                         *)
(* A reducer runs to its end inside one call.  What the call leaves behind *)
(* is the value returned, the position of the cursor it requested from the *)
(* sequence (iterPos[0]) and the log of callback calls, kept in cursors[1]. *)
(* op holds the arguments: f the accumulator or predicate, n the initial   *)
(* value, tails[1] the stop callback, and flag whether the sequence is the *)
(* endless create.increments(1) rather than results.                       *)

\* A boolean payload.
Bool(b) == [bool |-> b]

\* Accumulator callbacks: a sum, (_, x) => x, and those of some and every.
Accumulators == {"sum", "last"}
Accumulate(f, acc, item) ==
    CASE f = "sum" -> Num(acc.num + item.num)
      [] f = "last" -> item
      [] f = "or" -> Bool(acc.bool \/ item.bool)
      [] f = "and" -> Bool(acc.bool /\ item.bool)

\* Stop callbacks: kComb(false) (the default), tests of the accumulator, of
\* the item and of the index, and those of some and every.
Stops == {"never", "accGe3", "itemIs2", "indexIs1"}
Stop(st, acc, item, index) ==
    CASE st = "never" -> FALSE
      [] st = "accGe3" -> acc.num >= 3
      [] st = "itemIs2" -> item.num = 2
      [] st = "indexIs1" -> index = 1
      [] st = "acc" -> acc.bool
      [] st = "notAcc" -> ~acc.bool

\* The Step the cursor over the reduced sequence returns at position pos.
ReducePull(endless, res, pos) ==
    IF endless THEN ValueStep(Num(pos + 1)) ELSE Pull(res, pos)

\* The longest run of a reducer that is followed to its end.
Fuel == MaxLen + MaxExtra + 2

\* The item reduce is handed for the upstream Step nxt: the item itself, or
\* for some and every the result of map's call of the predicate pr.
Mapped(pr, nxt, index) ==
    IF pr = "" THEN nxt.value ELSE Bool(ApplyPred(pr, nxt.value, index))

\* A reduce that looks at stop before it accumulates the item (a mutation
\* of ReduceRun).
RECURSIVE ReduceRunStopsFirst(_, _, _, _, _, _, _, _, _, _)
ReduceRunStopsFirst(f, st, pr, endless, res, pos, index, acc, log, fuel) ==
    LET nxt == ReducePull(endless, res, pos)
        item == Mapped(pr, nxt, index)
    IN  IF fuel = 0
        THEN [returned |-> FALSE, value |-> acc, pos |-> pos, log |-> log]
        ELSE IF nxt.done \/ Stop(st, acc, item, index)
        THEN [returned |-> TRUE, value |-> acc, pos |-> pos + 1, log |-> log]
        ELSE ReduceRunStopsFirst(f, st, pr, endless, res, pos + 1, index + 1,
                 Accumulate(f, acc, item),
                 Append(log, [acc |-> acc, item |-> item, index |-> index]),
                 fuel - 1)

\* reduce: `for (const item of it) { accumulator = reducer(accumulator, item,
\* index, it); if (stop(accumulator, item, index, it)) break; index++ }`.
\* log lists the calls of reducer; a run that uses up its fuel has not
\* returned.
RECURSIVE ReduceRun(_, _, _, _, _, _, _, _, _, _)
ReduceRun(f, st, pr, endless, res, pos, index, acc, log, fuel) ==
    LET nxt == ReducePull(endless, res, pos)
        item == Mapped(pr, nxt, index)
        acc2 == Accumulate(f, acc, item)
        log2 == Append(log, [acc |-> acc, item |-> item, index |-> index])
    IN  IF fuel = 0
        THEN [returned |-> FALSE, value |-> acc, pos |-> pos, log |-> log]
        ELSE IF nxt.done
        THEN [returned |-> TRUE, value |-> acc, pos |-> pos + 1, log |-> log]
        ELSE IF Stop(st, acc2, item, index)
        THEN [returned |-> TRUE, value |-> acc2, pos |-> pos + 1, log |-> log2]
        ELSE ReduceRun(f, st, pr, endless, res, pos + 1, index + 1, acc2, log2,
                       fuel - 1)

\* reduce(it, reducer, initialValue, stop)
Reduce(o, res) ==
    ReduceRun(o.f, o.tails[1], "", o.flag, res, 0, 0, Num(o.n), << >>, Fuel)

\* A some without its stop callback (a mutation of Some).
SomeNoShortCircuit(o, res) ==
    ReduceRun("or", "never", o.f, o.flag, res, 0, 0, Bool(FALSE), << >>, Fuel)

\* some: reduce(map(it, predicate), (acc, result) => acc || result, false,
\* (acc) => acc)
Some(o, res) ==
    ReduceRun("or", "acc", o.f, o.flag, res, 0, 0, Bool(FALSE), << >>, Fuel)

\* every: reduce(map(it, predicate), (acc, result) => acc && result, true,
\* (acc) => !acc)
Every(o, res) ==
    ReduceRun("and", "notAcc", o.f, o.flag, res, 0, 0, Bool(TRUE), << >>, Fuel)

\* The calls of the reducers.
ReducePreds == Preds \cup {"always"}
ReducerOps ==
    {Op("reduce", n, f, e, <<st>>) :
        n \in {0, 5}, f \in Accumulators, e \in BOOLEAN, st \in Stops}
    \cup {Op(nm, 0, pr, e, << >>) :
             nm \in {"some", "every"}, pr \in ReducePreds, e \in BOOLEAN}

InitReducers ==
    /\ results \in Sources
    /\ built = "none"
    /\ op = NoOp
    /\ iterPos = << >>
    /\ history = << >>
    /\ done = FALSE
    /\ cursors = << >>
    /\ calls = 0

\* The state a call of a reducer leaves behind once it has returned r.
Returned(o, r) ==
    /\ r.returned
    /\ built' = o.name
    /\ op' = o
    /\ iterPos' = (0 :> r.pos)
    /\ cursors' = <<[value |-> r.value, log |-> r.log]>>
    /\ calls' = calls + Len(r.log)
    /\ UNCHANGED <<results, history, done>>

\* reduce(it, reducer, initialValue, stop); the endless sequence is reduced
\* in place of results when o.flag says so.
CallReduce ==
    /\ built = "none"
    /\ \E o \in ReducerOps :
          /\ o.name = "reduce"
          /\ o.flag => results = << >>
          /\ Returned(o, Reduce(o, results))

\* some(it, predicate)
CallSome ==
    /\ built = "none"
    /\ \E o \in ReducerOps :
          /\ o.name = "some"
          /\ o.flag => results = << >>
          /\ Returned(o, Some(o, results))

\* every(it, predicate)
CallEvery ==
    /\ built = "none"
    /\ \E o \in ReducerOps :
          /\ o.name = "every"
          /\ o.flag => results = << >>
          /\ Returned(o, Every(o, results))

NextReducers ==
    \/ CallReduce
    \/ CallSome
    \/ CallEvery

SpecReducers == InitReducers /\ [][NextReducers]_vars

----------------------------------------------------------------------------
(* create.fromCharCodes, create.fromChars (lib/generators.ts)              *)
(*                                                                         *)
(* A string is the list of its UTF-16 code units; an astral character is   *)
(* two of them, a high and a low surrogate.  results holds the string, a   *)
(* cursor is a generator object: pc is where it is suspended, i the loop   *)
(* variable.                                                               *)

\* The code units strings are made of: "a", and the surrogate pair of U+1F980.
CodeUnits == {97, 55358, 56704}

\* The strings: every list of at most MaxLen code units.
Strings == UNION {[1..n -> CodeUnits] : n \in 0..MaxLen}

\* A string value, and the number NaN.
Str(units) == [str |-> units]
NaN == [nan |-> TRUE]

\* str.charCodeAt(i): the code unit at index i (from 0), NaN out of range.
charCodeAt(str, i) == IF i < Len(str) THEN Num(str[i + 1]) ELSE NaN

\* str.charAt(i): the string of the one code unit at index i (from 0), the
\* empty string out of range.
charAt(str, i) == IF i < Len(str) THEN Str(<<str[i + 1]>>) ELSE Str(<< >>)

\* `c !== c`: true of NaN and of no other value.
NotSelf(c) == c = NaN

CharOps == {Op(nm, 0, "", FALSE, << >>) : nm \in {"fromCharCodes", "fromChars"}}

\* A generator object fresh from [Symbol.iterator](): its body has not run.
CharCursor == [pc |-> "start", i |-> 0, out |-> << >>]

\* One next() on a cursor: `const c = ...; if (c !== c) return; yield c; i++`
CharNext(o, c, str) ==
    LET i == IF c.pc = "start" THEN 0 ELSE c.i + 1
        ch == IF o.name = "fromCharCodes" THEN charCodeAt(str, i) ELSE charAt(str, i)
    IN  IF c.pc = "finished" THEN [c |-> c, step |-> DoneStep(Undef)]
        ELSE IF NotSelf(ch)
        THEN [c |-> [c EXCEPT !.pc = "finished", !.i = i], step |-> DoneStep(Undef)]
        ELSE [c |-> [c EXCEPT !.pc = "running", !.i = i], step |-> ValueStep(ch)]

InitChars ==
    /\ results \in Strings
    /\ built = "none"
    /\ op = NoOp
    /\ iterPos = << >>
    /\ history = << >>
    /\ done = FALSE
    /\ cursors = << >>
    /\ calls = 0

\* create.fromCharCodes(results) or create.fromChars(results)
ConstructChars ==
    /\ built = "none"
    /\ built' = "chars"
    /\ op' \in CharOps
    /\ UNCHANGED <<results, iterPos, history, done, cursors, calls>>

\* seq[Symbol.iterator](), at most twice.
RequestChars ==
    /\ built = "chars"
    /\ Len(cursors) < 2
    /\ cursors' = Append(cursors, CharCursor)
    /\ UNCHANGED <<results, built, op, iterPos, history, done, calls>>

\* cursor.next() on the i-th cursor
AdvanceChars(i) ==
    /\ built = "chars"
    /\ Len(cursors[i].out) < Len(results) + MaxExtra + 1
    /\ LET r == CharNext(op, cursors[i], results)
       IN  cursors' = [cursors EXCEPT ![i] = [r.c EXCEPT !.out = Append(@, r.step)]]
    /\ UNCHANGED <<results, built, op, iterPos, history, done, calls>>

NextChars ==
    \/ ConstructChars
    \/ RequestChars
    \/ \E i \in 1..Len(cursors) : AdvanceChars(i)

SpecChars == InitChars /\ [][NextChars]_vars

----------------------------------------------------------------------------
(* The library as a whole: any one of the descriptors is constructed over  *)
(* results and its cursors are driven.                                     *)

Init ==
    /\ results \in Sources
    /\ built = "none"
    /\ op = NoOp
    /\ iterPos = << >>
    /\ history = << >>
    /\ done = FALSE
    /\ cursors = << >>
    /\ calls = 0

Next ==
    \/ NextRemember
    \/ NextPeekable
    \/ NextPipe

Spec == Init /\ [][Next]_vars

----------------------------------------------------------------------------
(* Claims *)

(* C1: under any interleaving of next() calls on the cursors of one        *)
(* remember wrapper, the k-th item a cursor yields is the k-th item of the *)
(* source (nothing skipped), and a cursor that has ended has yielded every *)
(* item of the source.                                                     *)
C1_CursorsSeeSource ==
    \A i \in 1..Len(cursors) :
        LET y == Yielded(cursors[i].out)
            s == Items(results)
        IN  /\ \A k \in 1..Len(y) : k <= Len(s) => y[k] = s[k]
            /\ Ended(cursors[i].out) => Len(y) >= Len(s)

(* C2: once a cursor of a remember wrapper has drained the source, a       *)
(* cursor requested afterwards yields what that cursor yielded: the same   *)
(* items in the same order, and the same number of them.                   *)
C2_LateCursorSameResults ==
    \A i, j \in 1..Len(cursors) :
        (/\ i # j
         /\ ~cursors[i].late /\ Ended(cursors[i].out)
         /\ cursors[j].late)
        => /\ IsPrefix(Yielded(cursors[j].out), Yielded(cursors[i].out))
           /\ Ended(cursors[j].out) =>
                  Yielded(cursors[j].out) = Yielded(cursors[i].out)

(* C3: the shared upstream cursor of a remember wrapper is advanced once   *)
(* per position, however many cursors visit the position: every advance is *)
(* recorded once in history, no cursor has seen more positions than were   *)
(* pulled, and the upstream is never advanced past its first Done step.    *)
C3_SinglePull ==
    built = "remember" =>
        /\ iterPos[0] = Len(history)
        /\ iterPos[0] <= FirstDone(results)
        /\ done <=> iterPos[0] = FirstDone(results)
        /\ \A i \in 1..Len(cursors) :
               Len(Yielded(cursors[i].out)) <= iterPos[0]

\* Two cursors have both visited the first position, one of them has pulled
\* the upstream's Done step, and calls went on after that.
C3_Witness ==
    /\ built = "remember"
    /\ Len(cursors) >= 2
    /\ done
    /\ Len(Items(results)) >= 2
    /\ Len(Yielded(cursors[1].out)) >= 1
    /\ Len(Yielded(cursors[2].out)) >= 1
    /\ \E i \in 1..Len(cursors) : Len(cursors[i].out) > FirstDone(results)

(* C4: on a peekable cursor, consecutive peek() calls return the same Step, *)
(* the next() that follows a peek() returns that Step and empties the      *)
(* cache, and every peek() returns the Step of the position after the ones  *)
(* next() has returned so far.                                              *)
C4_PeekStable ==
    built = "peekable" =>
        LET log == cursors[1].log
            Nexts(k) == Cardinality({j \in 1..k : log[j].kind = "next"})
        IN  /\ \A k \in 1..(Len(log) - 1) :
                   log[k].kind = "peek" => log[k + 1].step = log[k].step
            /\ \A k \in 1..Len(log) :
                   log[k].kind = "peek" =>
                       log[k].step = FromResultsNext(results, Nexts(k) + 1)
            /\ cursors[1].cached # << >> <=>
                   (Len(log) > 0 /\ log[Len(log)].kind = "peek")

\* peek, peek, next, peek have been called in a row on a source whose first
\* two Steps differ.
C4_Witness ==
    /\ built = "peekable"
    /\ \E k \in 1..(Len(cursors[1].log) - 3) :
          /\ cursors[1].log[k].kind = "peek"
          /\ cursors[1].log[k + 1].kind = "peek"
          /\ cursors[1].log[k + 2].kind = "next"
          /\ cursors[1].log[k + 3].kind = "peek"
          /\ cursors[1].log[k + 3].step # cursors[1].log[k + 2].step

(* C5: whatever peek() calls are mixed in, the Steps returned by the next() *)
(* calls of a peekable cursor are the Steps a plain cursor over the source  *)
(* returns, in order: none skipped, none repeated.                          *)
C5_PeekableRefinesPlain ==
    built = "peekable" =>
        cursors[1].out =
            [k \in 1..Len(cursors[1].out) |-> FromResultsNext(results, k)]

\* Three Steps, the last a Done, have been returned by next() calls with a
\* peek() before each and a peek() between the first two.
C5_Witness ==
    /\ built = "peekable"
    /\ Len(cursors[1].out) >= 3
    /\ ~cursors[1].out[1].done
    /\ cursors[1].out[3].done
    /\ Len(cursors[1].log) >= 6
    /\ cursors[1].log[1].kind = "peek"
    /\ cursors[1].log[2].kind = "next"
    /\ cursors[1].log[3].kind = "peek"
    /\ cursors[1].log[4].kind = "peek"
    /\ cursors[1].log[5].kind = "next"

\* No Value step follows a Done step in the Steps a cursor returned.
NoValueAfterDone(out) ==
    \A j, k \in 1..Len(out) : (j < k /\ out[j].done) => out[k].done

(* C6 (as stated): on every cursor of the library, fromResults and the     *)
(* peekable cursor included, no next() returns a Value step after a next() *)
(* has returned Done.                                                      *)
C6_NoValueAfterDone ==
    \A i \in 1..Len(cursors) : NoValueAfterDone(cursors[i].out)

\* The Steps a fromResults cursor or a peekable cursor is given: the listed
\* results (the upstream cursor's Steps), followed for fromResults by the
\* value the sequence of results returns, if it returns one.
Given(o, res) ==
    IF o.name = "fromResults" /\ o.tails # << >> THEN Append(res, o.tails[1][1])
    ELSE res

(* C6 (amended): every cursor that is a generator (all the stateless       *)
(* operations but fromResults, and remember) returns Done for ever once it *)
(* has returned Done; a fromResults cursor and a peekable cursor hand out  *)
(* the Steps they are given, so a Value step follows a Done step on them   *)
(* exactly when it does in those Steps.                                    *)
C6_FusedUnlessReplayed ==
    \A i \in 1..Len(cursors) :
        IF built = "peekable" \/ (built = "pipe" /\ op.name = "fromResults")
        THEN NoValueAfterDone(cursors[i].out) <=>
                 NoValueAfterDone([k \in 1..Len(cursors[i].out) |->
                                      FromResultsNext(Given(op, results), k)])
        ELSE NoValueAfterDone(cursors[i].out)

\* A fuse cursor over a source with an item after its first Done step has
\* been advanced twice past the Done it returned.
C6_Witness ==
    /\ built = "pipe"
    /\ op.name = "fuse"
    /\ ~NoValueAfterDone(results)
    /\ \E i \in 1..Len(cursors) :
          /\ Len(cursors[i].out) >= FirstDone(results) + 2
          /\ cursors[i].out[FirstDone(results)].done

(* C7: a cursor of fuse(s) yields the items of s that precede the first    *)
(* Done step of the upstream cursor, in order, and returns Done without a  *)
(* payload to every next() after them, whatever the upstream would return  *)
(* after its first Done step.                                              *)
C7_FuseStopsAtFirstDone ==
    (built = "pipe" /\ op.name = "fuse") =>
        \A i \in 1..Len(cursors) :
            cursors[i].out =
                [k \in 1..Len(cursors[i].out) |->
                    IF k <= Len(Items(results))
                    THEN ValueStep(Items(results)[k])
                    ELSE DoneStep(Undef)]

\* The upstream's first Done step comes after an item, carries a payload
\* and is followed by another item; the fuse cursor was advanced past it.
C7_Witness ==
    /\ built = "pipe"
    /\ op.name = "fuse"
    /\ FirstDone(results) = 2
    /\ Len(results) >= 3
    /\ results[2].value # Undef
    /\ ~results[3].done
    /\ Len(cursors) >= 1
    /\ Len(cursors[1].out) >= 4

\* The Steps the first n next() calls return on a cursor c of o that has an
\* upstream cursor (at position pos) of its own.
RECURSIVE Alone(_, _, _, _, _)
Alone(o, c, pos, res, n) ==
    IF n = 0 THEN << >>
    ELSE LET r == PipeNext(o, c, pos, res, 0)
         IN  <<r.step>> \o Alone(o, r.c, r.pos, res, n - 1)

(* C8: two cursors requested from one stateless operation are positioned   *)
(* independently: under any interleaving of their next() calls each one    *)
(* returns the Steps it would return were it the only cursor, from the     *)
(* start of the content.                                                   *)
C8_CursorsIndependent ==
    built = "pipe" =>
        \A i \in 1..Len(cursors) :
            cursors[i].out =
                Alone(op, PipeCursor, 0, results, Len(cursors[i].out))

\* Two cursors over a source of two items or more have each yielded the
\* first item, and one of them is ahead of the other.
C8_Witness ==
    /\ built = "pipe"
    /\ op.name \notin {"from", "fromResults", "endlessFrom", "chunkifyArray"}
    /\ Len(Items(results)) >= 2
    /\ Len(cursors) = 2
    /\ Len(Yielded(cursors[1].out)) >= 1
    /\ Len(Yielded(cursors[2].out)) >= 2
    /\ iterPos[1] >= 1
    /\ iterPos[2] > iterPos[1]

(* C9: the step that constructs a descriptor advances no upstream cursor,  *)
(* calls no callback and records nothing; after it, an upstream cursor is  *)
(* advanced, a callback called or history extended only by a step in which *)
(* a call is made on one of the cursors produced.                          *)
C9_ConstructionIsInert ==
    [][/\ built = "none" =>
              /\ calls' = calls
              /\ history' = << >>
              /\ \A id \in DOMAIN iterPos' : iterPos'[id] = 0
       /\ (/\ built # "none"
           /\ (calls' # calls \/ iterPos' # iterPos \/ history' # history)) =>
              IF built = "peekable"
              THEN Len(cursors'[1].log) = Len(cursors[1].log) + 1
              ELSE \E i \in 1..Len(cursors) :
                      Len(cursors'[i].out) = Len(cursors[i].out) + 1]_vars

\* A descriptor with a callback has been constructed and two cursors
\* requested from it: the one never advanced has pulled nothing, the other
\* has pulled and the callback has been called.
C9_Witness ==
    /\ built = "pipe"
    /\ op.name \in {"map", "filter", "flatMap", "until", "dropUntil", "lazyObserver"}
    /\ Len(cursors) = 2
    /\ cursors[1].out = << >>
    /\ iterPos[1] = 0
    /\ Len(cursors[2].out) >= 1
    /\ iterPos[2] >= 1
    /\ calls >= 1

(* C10: a cursor of take(s, n) advances its upstream cursor at most n      *)
(* times and returns n Value steps, then Done: the first min(n, length)    *)
(* carry the leading items of s, the others carry no value.                *)
C10_TakePadsWithNoValue ==
    (built = "pipe" /\ op.name = "take") =>
        \A i \in 1..Len(cursors) :
            /\ iterPos[i] <= op.n
            /\ cursors[i].out =
                   [k \in 1..Len(cursors[i].out) |->
                       IF k > op.n THEN DoneStep(Undef)
                       ELSE IF k <= Len(Items(results))
                       THEN ValueStep(Items(results)[k])
                       ELSE ValueStep(Undef)]

(* C11: for n at most the number of items of s, a cursor of                *)
(* take(take(s, n), n) returns the Steps a cursor of take(s, n) returns:   *)
(* the same elements in the same order, then Done.                         *)
C11_TakeTakeIsTake ==
    (built = "pipe" /\ op.name = "takeTake" /\ op.n <= Len(Items(results))) =>
        \A i \in 1..Len(cursors) :
            cursors[i].out =
                Alone(Op("take", op.n, "", FALSE, << >>), PipeCursor, 0,
                      results, Len(cursors[i].out))

\* take(take(s, 2), 2) over a source of three items has been driven to its
\* end.
C11_Witness ==
    /\ built = "pipe"
    /\ op.name = "takeTake"
    /\ op.n = 2
    /\ Len(Items(results)) = 3
    /\ Len(cursors) >= 1
    /\ Len(Yielded(cursors[1].out)) = 2
    /\ Ended(cursors[1].out)

\* The k-th item of a sequence, "no value" past its end.
ItemOrUndef(items, k) == IF k <= Len(items) THEN items[k] ELSE Undef

(* C12: over inputs that stay Done once Done, a cursor of pair(a, b)       *)
(* returns max(length(a), length(b)) tuples, then Done; the k-th tuple is  *)
(* (a_k, b_k), with "no value" on the side of an input that has ended, and *)
(* each upstream cursor is advanced once per next().                       *)
C12_PairPadsWithNoValue ==
    (built = "pipe" /\ op.name = "pair" /\ NoValueAfterDone(results)) =>
        LET a == Items(results)
            b == Items(op.tails[1])
            n == IF Len(a) > Len(b) THEN Len(a) ELSE Len(b)
        IN  \A i \in 1..Len(cursors) :
                /\ cursors[i].out =
                       [k \in 1..Len(cursors[i].out) |->
                           IF k > n THEN DoneStep(Undef)
                           ELSE ValueStep(Arr(<<ItemOrUndef(a, k),
                                                ItemOrUndef(b, k)>>))]
                /\ Len(cursors[i].out) <= n + 1 =>
                       /\ iterPos[i] = Len(cursors[i].out)
                       /\ cursors[i].pos2 = Len(cursors[i].out)

\* The items of the tails, one tail after the other.
RECURSIVE TailItems(_)
TailItems(tails) ==
    IF Len(tails) = 0 THEN << >>
    ELSE Items(Head(tails)) \o TailItems(Tail(tails))

(* C13: a cursor of concat(head, t1, ..., tm) yields the items of head in  *)
(* order, then the items of each tail in argument order, and then returns  *)
(* Done: as many items as the inputs have together.                        *)
C13_ConcatInOrder ==
    (built = "pipe" /\ op.name = "concat") =>
        LET all == Items(results) \o TailItems(op.tails)
        IN  \A i \in 1..Len(cursors) :
                cursors[i].out =
                    [k \in 1..Len(cursors[i].out) |->
                        IF k <= Len(all) THEN ValueStep(all[k])
                        ELSE DoneStep(Undef)]

\* concat of a one-item head with a two-item tail and a one-item tail has
\* been driven to its end.
C13_Witness ==
    /\ built = "pipe"
    /\ op.name = "concat"
    /\ op.tails = <<Tail2, Tail1>>
    /\ Len(Items(results)) = 1
    /\ Len(cursors) >= 1
    /\ Len(Yielded(cursors[1].out)) = 4
    /\ Ended(cursors[1].out)

\* The elements of the arrays of chunks, one array after the other.
RECURSIVE Unchunk(_)
Unchunk(chunks) ==
    IF Len(chunks) = 0 THEN << >>
    ELSE Head(chunks).arr \o Unchunk(Tail(chunks))

(* C14: for k >= 1, the chunks a cursor of chunkify(s, k) yields, put one  *)
(* after the other, are the items of s in order (all of them once the      *)
(* cursor has ended); every chunk but the last has k elements, the last    *)
(* has between 1 and k, so no chunk is empty and an empty s gives none.    *)
C14_ChunksRebuildSource ==
    (built = "pipe" /\ op.name \in {"chunkify", "chunkifyArray"}) =>
        \A i \in 1..Len(cursors) :
            LET y == Yielded(cursors[i].out)
            IN  /\ IsPrefix(Unchunk(y), Items(results))
                /\ Ended(cursors[i].out) => Unchunk(y) = Items(results)
                /\ \A j \in 1..(Len(y) - 1) : Len(y[j].arr) = op.n
                /\ \A j \in 1..Len(y) : Len(y[j].arr) \in 1..op.n

\* chunkify(s, 2) over three items, through the generic path, has yielded
\* a full chunk and a shorter last one and has ended.
C14_Witness ==
    /\ built = "pipe"
    /\ op.name = "chunkify"
    /\ op.n = 2
    /\ Len(Items(results)) = 3
    /\ Len(cursors) >= 1
    /\ Len(Yielded(cursors[1].out)) = 2
    /\ Ended(cursors[1].out)

(* C15: chunkify(s, k) throws a RangeError from the call itself exactly    *)
(* when k is not an integer or k <= 0; when it throws, no descriptor       *)
(* exists, no cursor has been requested from s and nothing has been        *)
(* pulled or called.                                                       *)
C15_ChunkifyRejectsAtCall ==
    op.name \in {"chunkify", "chunkifyArray"} =>
        /\ built = "RangeError" <=> (op.f # "" \/ op.n <= 0)
        /\ built # "RangeError" => built = "pipe"
        /\ built = "RangeError" =>
               /\ cursors = << >>
               /\ iterPos = << >>
               /\ calls = 0

\* chunkify has been called on a source of items with a chunk size of 0.
C15_Witness ==
    /\ built = "RangeError"
    /\ op.name = "chunkify"
    /\ op.n = 0
    /\ op.f = ""
    /\ Len(Items(results)) >= 1

\* The numbers a cursor yielded.
Numbers(out) == [k \in 1..Len(Yielded(out)) |-> Yielded(out)[k].num]

\* The numbers a traversal of range yields (for a step that is not 0).
RECURSIVE RangeItems(_, _, _)
RangeItems(o, c, fuel) ==
    LET r == RangeNext(o, c)
    IN  IF r.step.done \/ fuel = 0 THEN << >>
        ELSE <<r.step.value.num>> \o RangeItems(o, r.c, fuel - 1)

(* C16: for integers start and end and a step that is not 0, a traversal   *)
(* of range(start, end, step) yields start and yields end, yields what     *)
(* range(start, end, -step) yields, and ascends if end > start and         *)
(* descends otherwise.                                                      *)
C16_RangeIncludesBothEnds ==
    (/\ built = "range"
     /\ op.tails[2] # Undef
     /\ op.tails[3] # Undef
     /\ op.tails[3].num # 0) =>
        \A i \in 1..Len(cursors) :
            Ended(cursors[i].out) =>
                LET y == Numbers(cursors[i].out)
                    start == op.tails[1].num
                    end == op.tails[2].num
                IN  /\ \E k \in 1..Len(y) : y[k] = start
                    /\ \E k \in 1..Len(y) : y[k] = end
                    /\ y = RangeItems(RangeOp(op.tails[1], op.tails[2],
                                              Num(-op.tails[3].num)),
                                      RangeCursor, 2 * MaxRange + 1)
                    /\ \A k \in 1..(Len(y) - 1) :
                           IF end > start THEN y[k + 1] > y[k]
                           ELSE y[k + 1] < y[k]

\* The integers from a to b, ascending if b > a and descending otherwise.
RECURSIVE FromTo(_, _)
FromTo(a, b) ==
    IF a = b THEN <<a>>
    ELSE <<a>> \o FromTo(IF b > a THEN a + 1 ELSE a - 1, b)

(* C17: with step left out, a traversal of range(x) yields the integers    *)
(* from 0 to x and a traversal of range(start, end) yields the integers    *)
(* from start to end, beginning with start, ascending if end > start and   *)
(* descending otherwise, for every integer end, 0 and negatives included.  *)
C17_RangeCoversStartToEnd ==
    (built = "range" /\ op.tails[3] = Undef) =>
        \A i \in 1..Len(cursors) :
            LET y == Numbers(cursors[i].out)
                all == IF op.tails[2] = Undef
                       THEN FromTo(0, op.tails[1].num)
                       ELSE FromTo(op.tails[1].num, op.tails[2].num)
            IN  /\ IsPrefix(y, all)
                /\ Ended(cursors[i].out) => y = all

\* The items of the sequence a reducer was called on.
ReducedItems ==
    IF op.flag THEN [k \in 1..Fuel |-> Num(k)] ELSE Items(results)

\* The left fold of the accumulator f over the first k of items.
RECURSIVE Fold(_, _, _, _)
Fold(f, init, items, k) ==
    IF k = 0 THEN init
    ELSE Accumulate(f, Fold(f, init, items, k - 1), items[k])

RECURSIVE Splice(_)
Splice(items) ==
    IF Len(items) = 0 THEN << >>
    ELSE (IF isIterable(Head(items)) THEN Head(items).arr ELSE <<Head(items)>>)
         \o Splice(Tail(items))

\* d levels of nesting spliced, outermost first.
RECURSIVE SpliceLevels(_, _)
SpliceLevels(items, d) ==
    IF d = 0 THEN items ELSE SpliceLevels(Splice(items), d - 1)

(* C20: for d >= 0, a traversal of flat(s, d) yields the content of s with *)
(* the outermost d levels of nesting spliced, left to right: a value at    *)
(* most d levels deep is an item, a sequence deeper than that is one item, *)
(* and flat(s, 0) yields the items of s.                                   *)
C20_FlatSplicesLevels ==
    (built = "pipe" /\ op.name = "flat") =>
        LET all == SpliceLevels(Items(NestedSource(results)), op.n)
        IN  \A i \in 1..Len(cursors) :
                cursors[i].out =
                    [k \in 1..Len(cursors[i].out) |->
                        IF k <= Len(all) THEN ValueStep(all[k])
                        ELSE DoneStep(Undef)]

\* The leaves of a nested list, depth first and left to right: every value
\* that is not a sequence, at whatever depth.
RECURSIVE Leaves(_)
Leaves(items) ==
    IF Len(items) = 0 THEN << >>
    ELSE (IF isIterable(Head(items)) THEN Leaves(Head(items).arr)
          ELSE <<Head(items)>>)
         \o Leaves(Tail(items))

(* C21: a traversal of completeFlat(s) ends and yields the leaves of s,    *)
(* the values that are not sequences, depth first and left to right, each  *)
(* once, and nothing that isIterable accepts.                              *)
C21_CompleteFlatYieldsLeaves ==
    (built = "pipe" /\ op.name = "completeFlat") =>
        LET all == Leaves(Items(NestedSource(results)))
        IN  \A i \in 1..Len(cursors) :
                cursors[i].out =
                    [k \in 1..Len(cursors[i].out) |->
                        IF k <= Len(all) THEN ValueStep(all[k])
                        ELSE DoneStep(Undef)]


\* The callback results of flatMap for the items of res, in order: what
\* map(res, f) yields.
MappedItems(f, res) ==
    [k \in 1..Len(Items(res)) |-> ApplyFlat(f, Items(res)[k], k - 1)]

\* The callback calls a cursor has made when its upstream cursor has been
\* advanced pos times: one per item pulled.
CallsFor(pos, res) == IF pos < Len(Items(res)) THEN pos ELSE Len(Items(res))

(* C22: a traversal of flatMap(s, f) yields what flat(map(s, f), 1) yields: *)
(* the callback results in order, a result that is a sequence spliced by   *)
(* one level and any other result as it is, with one call of f per item    *)
(* pulled.                                                                 *)
C22_FlatMapIsFlatOfMap ==
    (built = "pipe" /\ op.name = "flatMap") =>
        LET all == Splice(MappedItems(op.f, results))
        IN  /\ \A i \in 1..Len(cursors) :
                   cursors[i].out =
                       [k \in 1..Len(cursors[i].out) |->
                           IF k <= Len(all) THEN ValueStep(all[k])
                           ELSE DoneStep(Undef)]
            /\ calls = CallsFor(iterPos[1], results) + CallsFor(iterPos[2], results)


\* The smaller of two numbers.
Min(a, b) == IF a < b THEN a ELSE b

(* C23: lazyObserver(seq, f) calls f never at construction and once per    *)
(* item per pull: after k next() calls on a cursor, that cursor has pulled *)
(* min(k, length + 1) Steps from its upstream cursor and has called f      *)
(* min(k, length) times, with indices 0, 1, ... in turn, and the items it  *)
(* has yielded are those of seq unchanged.                                 *)
C23_LazyObserverOncePerPull ==
    (built = "pipe" /\ op.name = "lazyObserver") =>
        LET items == Items(results)
            n == Len(items)
            seen(i) == IF i <= Len(cursors) THEN Min(Len(cursors[i].out), n) ELSE 0
        IN  /\ \A i \in 1..Len(cursors) :
                   /\ cursors[i].out =
                          [k \in 1..Len(cursors[i].out) |->
                              IF k <= n THEN ValueStep(items[k])
                              ELSE DoneStep(Undef)]
                   /\ cursors[i].index = seen(i)
                   /\ iterPos[i] = Min(Len(cursors[i].out), n + 1)
            /\ calls = seen(1) + seen(2)

C23_Witness ==
    /\ built = "pipe"
    /\ op.name = "lazyObserver"
    /\ Len(Items(results)) = 2
    /\ Len(cursors) = 2
    /\ Len(cursors[1].out) = 4
    /\ Len(cursors[2].out) = 1
    /\ calls = 3


\* The position (from 1) of the first of items for which the predicate f
\* returns true, or one more than their number if there is none.
FirstHit(f, items) ==
    IF \E k \in 1..Len(items) : ApplyPred(f, items[k], k - 1)
    THEN CHOOSE k \in 1..Len(items) :
            /\ ApplyPred(f, items[k], k - 1)
            /\ \A j \in 1..(k - 1) : ~ApplyPred(f, items[j], j - 1)
    ELSE Len(items) + 1

(* C24: until(seq, p, includeLast) yields in order the items before the    *)
(* first one for which p is true, then that item if includeLast, and ends; *)
(* p is never evaluated on a later item and no later item is pulled; if p  *)
(* is never true every item of seq is yielded.                             *)
C24_UntilStopsAtFirstHit ==
    (built = "pipe" /\ op.name = "until") =>
        LET items == Items(results)
            h == FirstHit(op.f, items)
            all == SubSeq(items, 1, IF op.flag THEN Min(h, Len(items)) ELSE h - 1)
            evals(i) == IF i <= Len(cursors) THEN Min(Len(cursors[i].out), Min(h, Len(items)))
                        ELSE 0
        IN  /\ \A i \in 1..Len(cursors) :
                   /\ cursors[i].out =
                          [k \in 1..Len(cursors[i].out) |->
                              IF k <= Len(all) THEN ValueStep(all[k])
                              ELSE DoneStep(Undef)]
                   /\ iterPos[i] = Min(Len(cursors[i].out), h)
                   /\ cursors[i].index = evals(i)
            /\ calls = evals(1) + evals(2)

C24_Witness ==
    /\ built = "pipe"
    /\ op.name = "until"
    /\ op.f = "second"
    /\ op.flag
    /\ Len(Items(results)) = 3
    /\ Len(cursors) = 1
    /\ Len(cursors[1].out) = 4
    /\ Yielded(cursors[1].out) = <<Num(1), Num(2)>>
    /\ iterPos[1] = 2
    /\ calls = 2


(* C25: dropUntil(seq, p, includeFirst) yields nothing up to the first     *)
(* item for which p is true, that item if includeFirst, and then every     *)
(* later item of seq in order; p is called once per item up to and         *)
(* including that first item and never afterwards; if p is never true      *)
(* nothing is yielded.                                                     *)
C25_DropUntilPassesRest ==
    (built = "pipe" /\ op.name = "dropUntil") =>
        LET items == Items(results)
            n == Len(items)
            h == FirstHit(op.f, items)
            start == IF op.flag THEN h ELSE h + 1
            all == SubSeq(items, start, n)
            evals(i) == IF i <= Len(cursors) THEN Min(iterPos[i], Min(h, n)) ELSE 0
        IN  /\ \A i \in 1..Len(cursors) :
                   /\ cursors[i].out =
                          [k \in 1..Len(cursors[i].out) |->
                              IF k <= Len(all) THEN ValueStep(all[k])
                              ELSE DoneStep(Undef)]
                   /\ iterPos[i] = IF Len(cursors[i].out) = 0 THEN 0
                                   ELSE Min(start + Len(cursors[i].out) - 1, n + 1)
                   /\ cursors[i].index = evals(i)
            /\ calls = evals(1) + evals(2)

C25_Witness ==
    /\ built = "pipe"
    /\ op.name = "dropUntil"
    /\ op.f = "second"
    /\ op.flag
    /\ Len(Items(results)) = 3
    /\ Len(cursors) = 1
    /\ Yielded(cursors[1].out) = <<Num(2), Num(3)>>
    /\ Ended(cursors[1].out)
    /\ calls = 2


(* C26: fromResults(steps) replays the supplied Steps: the k-th next() of  *)
(* a cursor returns the k-th supplied Step unchanged, as a generator       *)
(* yielding the same values and returning the same trailing value would,   *)
(* and once the supplied Steps are used up next() returns Done with no     *)
(* payload.                                                                *)
C26_FromResultsReplays ==
    (built = "pipe" /\ op.name = "fromResults") =>
        \A i \in 1..Len(cursors) :
            cursors[i].out =
                [k \in 1..Len(cursors[i].out) |->
                    IF k <= Len(results) THEN results[k] ELSE DoneStep(Undef)]


(* C27: draining fromCharCodes(str) or fromChars(str) ends after exactly   *)
(* length(str) items: the UTF-16 code units of str in order, as numbers    *)
(* or as one-unit strings, the two halves of a surrogate pair as two       *)
(* items; the next() after them returns Done.                              *)
C27_CharsDrainToLength ==
    (built = "chars") =>
        \A i \in 1..Len(cursors) :
            cursors[i].out =
                [k \in 1..Len(cursors[i].out) |->
                    IF k <= Len(results)
                    THEN ValueStep(IF op.name = "fromCharCodes" THEN Num(results[k])
                                   ELSE Str(<<results[k]>>))
                    ELSE DoneStep(Undef)]


(* C28: the buffer of a remember wrapper is exact: in every reachable      *)
(* state, under any interleaving of its cursors, history holds in pull     *)
(* order the values the upstream cursor has yielded so far and nothing     *)
(* else, no entry for the terminating Done step in particular.             *)
C28_HistoryIsYieldedValues ==
    built = "remember" =>
        history = SubSeq(Items(results), 1, Min(iterPos[0], Len(Items(results))))


\* The other of the two code paths of chunkify, with the same chunkSize.
OtherPath(o) ==
    [o EXCEPT !.name = IF o.name = "chunkify" THEN "chunkifyArray" ELSE "chunkify"]

(* C29: the two code paths of chunkify agree: for k >= 1, the Steps a      *)
(* cursor returns through the array path (slicing) over an array are,      *)
(* chunk for chunk, the Steps a cursor returns through the general path    *)
(* (buffering) over a sequence that is not an array and has the same       *)
(* elements.                                                               *)
C29_ChunkifyPathsAgree ==
    (built = "pipe" /\ op.name \in {"chunkify", "chunkifyArray"}) =>
        \A i \in 1..Len(cursors) :
            cursors[i].out =
                Alone(OtherPath(op), PipeCursor, 0, results, Len(cursors[i].out))

\* The array path over three elements with chunkSize 2 has yielded a full
\* chunk and a shorter last one and has ended.
C29_Witness ==
    /\ built = "pipe"
    /\ op.name = "chunkifyArray"
    /\ op.n = 2
    /\ Len(cursors) >= 1
    /\ Yielded(cursors[1].out) = <<Arr(<<Num(1), Num(2)>>), Arr(<<Num(3)>>)>>
    /\ Ended(cursors[1].out)


(* C30: a peekable cursor looks ahead by at most one position: in every    *)
(* reachable state the upstream cursor has been advanced as often as       *)
(* next() has returned, plus once if a Step is cached; and a call of       *)
(* peek() or next() advances the upstream cursor (once) exactly when       *)
(* nothing is cached at the time of the call.                              *)
C30_PeekLooksOneAhead ==
    /\ [](built = "peekable" =>
              iterPos[0] = Len(cursors[1].out)
                             + (IF cursors[1].cached # << >> THEN 1 ELSE 0))
    /\ [][(built = "peekable" /\ built' = "peekable") =>
              iterPos'[0] = iterPos[0]
                              + (IF cursors[1].cached = << >> THEN 1 ELSE 0)]_vars

\* next() has returned twice, a Step is cached and peek() has been called
\* again on the cached Step: the upstream cursor has been advanced three
\* times in five calls.
C30_Witness ==
    /\ built = "peekable"
    /\ Len(cursors[1].out) = 2
    /\ cursors[1].cached # << >>
    /\ Len(cursors[1].log) = 5
    /\ cursors[1].log[4].kind = "peek"
    /\ cursors[1].log[5].kind = "peek"
    /\ iterPos[0] = 3

============================================================================
